---------------------------- MODULE Spec2Model ----------------------------
(***************************************************************************)
(* Model of tf_container: Trainer.build_tf_config (trainer.py) and the     *)
(* top-level flow train() with its parameter-server thread and its         *)
(* liveness wait (train.py), for one node of a training job.               *)
(*                                                                         *)
(* Host names and addresses are strings, modelled as sequences of          *)
(* one-character strings so that '{}:{}'.format(host, port) is a real      *)
(* concatenation.                                                          *)
(***************************************************************************)
EXTENDS Integers, Sequences, FiniteSets, TLC

VARIABLES
    hosts,              \* env.hosts / Trainer.hosts: ordered list of host names
    current_host,       \* env.current_host / Trainer.current_host
    checkpoint_differs, \* checkpoint_dir != env.model_dir (train.py:114)
    task_type,          \* Trainer.task_type ("None" until build_tf_config sets it)
    tf_config,          \* local tf_config of train() (train.py:102)
    exception,          \* the exception in flight or propagated, "none" if none
    pc,                 \* position of the main flow inside train()
    ps_thread,          \* state of the thread of _run_ps_server
    environ,            \* names of the environment variables train() has set
    master_up,          \* hosts[0]:2222 is reachable from this node
    sleeps,             \* number of time.sleep(10) calls of the liveness wait
    exits,              \* number of os._exit calls
    events,             \* history: the steps of the run, in order
    calls,              \* history: what each build_tf_config call raised and returned
    customer_script,    \* which of the model-construction functions the script defines
    estimator,          \* the branch of _build_estimator that built the estimator
    invoked,            \* the customer's model-construction functions called so far
    master,             \* the host _wait_until_master_is_down probes (train.py:118)
    ps_server           \* job name and task index of the thread's tf.train.Server

vars == <<hosts, current_host, checkpoint_differs, task_type, tf_config, exception,
          pc, ps_thread, environ, master_up, sleeps, exits, events, calls,
          customer_script, estimator, invoked, master, ps_server>>

---------------------------------------------------------------------------
(* Bounds *)

\* number of distinct host names of the job
NumHosts == 3
\* cap on the number of successful probes of one liveness wait
MaxSleeps == 2
\* number of build_tf_config calls made with the same hosts and current_host
MaxCalls == 2

\* Host names the job's hosts are drawn from (container names, all different).
NamePool == << <<"a">>, <<"b">>, <<"c">>, <<"d">>, <<"e">> >>

HostNames == {NamePool[i] : i \in 1..NumHosts}

\* Ordered host lists: every list of distinct names, the empty one included.
HostLists ==
    UNION {{s \in [1..n -> HostNames] : \A i, j \in 1..n : i # j => s[i] # s[j]}
             : n \in 0..NumHosts}

\* Host names of other shapes: empty, with a colon and a port in it, long
AnyNames == {<<>>, <<"a">>, <<"h", ":", "2", "2", "2", "2">>,
             <<"a", "l", "g", "o", "-", "1", "0">>}

\* length of the host lists drawn from AnyNames
MaxAnyNameHosts == 2

AnyNameLists ==
    UNION {{s \in [1..n -> AnyNames] : \A i, j \in 1..n : i # j => s[i] # s[j]}
             : n \in 0..MaxAnyNameHosts}

---------------------------------------------------------------------------
(* trainer.py: Trainer.build_tf_config *)

InList(x, list) == \E i \in 1..Len(list) : list[i] = x

ToSet(list) == {list[i] : i \in 1..Len(list)}

\* list.index(x): zero-based position of the first occurrence; ValueError if absent
ListIndex_Find(list, x) ==
    IF InList(x, list)
    THEN [exc |-> "none",
          value |-> (CHOOSE i \in 1..Len(list) :
                        list[i] = x /\ \A j \in 1..(i - 1) : list[j] # x) - 1]
    ELSE [exc |-> "none", value |-> -1]

ListIndex(list, x) ==
    IF InList(x, list)
    THEN [exc |-> "none",
          value |-> (CHOOSE i \in 1..Len(list) :
                        list[i] = x /\ \A j \in 1..(i - 1) : list[j] # x) - 1]
    ELSE [exc |-> "ValueError", value |-> -1]

\* self.hosts[:1]
Masters_Last(H) == IF Len(H) = 0 THEN <<>> ELSE SubSeq(H, Len(H), Len(H))

Masters(H) == IF Len(H) = 0 THEN <<>> ELSE SubSeq(H, 1, 1)

\* self.hosts[1:]
Workers_All(H) == H

Workers(H) == SubSeq(H, 2, Len(H))

\* self.hosts[:] if len(self.hosts) > 1 else None; None is modelled as <<>>,
\* which `if ps:` treats alike
Ps_WorkersOnly(H) == IF Len(H) > 1 THEN SubSeq(H, 2, Len(H)) ELSE <<>>

Ps(H) == IF Len(H) > 1 THEN H ELSE <<>>

\* Trainer._get_task_type
GetTaskType(cur, masters) == IF InList(cur, masters) THEN "master" ELSE "worker"

\* task_map of build_tf_config, the 'ps' entry only when ps is truthy
TaskMap_PsIndex(H) ==
    [k \in {"master", "worker"} \cup (IF Ps(H) # <<>> THEN {"ps"} ELSE {}) |->
        CASE k = "master" -> Masters(H)
          [] k = "worker" -> Ps(H)
          [] OTHER        -> Ps(H)]

TaskMap(H) ==
    [k \in {"master", "worker"} \cup (IF Ps(H) # <<>> THEN {"ps"} ELSE {}) |->
        CASE k = "master" -> Masters(H)
          [] k = "worker" -> Workers(H)
          [] OTHER        -> Ps(H)]

Port2222 == <<"2", "2", "2", "2">>
Port2223 == <<"2", "2", "2", "3">>

\* '{}:{}'.format(host, port)
FormatAddress(host, port) == host \o <<":">> \o port

\* build_host_addresses(my_hosts, port)
BuildHostAddresses(my_hosts, port) ==
    [i \in 1..Len(my_hosts) |-> FormatAddress(my_hosts[i], port)]

\* keys of tf_config['cluster']
ClusterKeys_AlwaysWorker(H) ==
    {"master", "worker"} \cup (IF Ps(H) # <<>> THEN {"ps"} ELSE {})

ClusterKeys(H) ==
    {"master"} \cup (IF Ps(H) # <<>> THEN {"ps"} ELSE {})
               \cup (IF Len(Workers(H)) > 0 THEN {"worker"} ELSE {})

Cluster(H) ==
    [k \in ClusterKeys(H) |->
        CASE k = "master" -> BuildHostAddresses(Masters(H), Port2222)
          [] k = "ps"     -> BuildHostAddresses(Ps(H), Port2223)
          [] OTHER        -> BuildHostAddresses(Workers(H), Port2222)]

\* value of tf_config before build_tf_config has returned one
NoTfConfig == [cluster |-> <<>>, task |-> <<>>, environment |-> "unset"]

\* Trainer.build_tf_config: the exception it raises ("none" if it returns), the
\* task_type it leaves on the Trainer, and the dictionary it returns
BuildTfConfig(H, cur) ==
    LET type    == GetTaskType(cur, Masters(H))
        task_id == ListIndex(TaskMap(H)[type], cur)
    IN  IF task_id.exc # "none"
        THEN [exc |-> task_id.exc, task_type |-> type, tf_config |-> NoTfConfig]
        ELSE [exc |-> "none", task_type |-> type,
              tf_config |-> [cluster     |-> Cluster(H),
                             task        |-> [index |-> task_id.value, type |-> type],
                             environment |-> "cloud"]]

---------------------------------------------------------------------------
(* trainer.py: Trainer._build_estimator *)

\* the model-construction functions a customer script may define
ModelFns == {"estimator_fn", "keras_model_fn", "model_fn"}

\* trainer.py:192-209  the branch taken, by hasattr, and the customer functions
\* the branch calls itself. The else branch tests nothing and calls nothing: it
\* wraps customer_script.model_fn in _model_fn, which the estimator calls later.
BuildEstimator_KerasFirst(script) ==
    IF "keras_model_fn" \in script
    THEN [branch |-> "keras_model_fn", invokes |-> {"keras_model_fn"}]
    ELSE IF "estimator_fn" \in script
         THEN [branch |-> "estimator_fn", invokes |-> {"estimator_fn"}]
         ELSE [branch |-> "model_fn", invokes |-> {}]

BuildEstimator(script) ==
    IF "estimator_fn" \in script
    THEN [branch |-> "estimator_fn", invokes |-> {"estimator_fn"}]
    ELSE IF "keras_model_fn" \in script
         THEN [branch |-> "keras_model_fn", invokes |-> {"keras_model_fn"}]
         ELSE [branch |-> "model_fn", invokes |-> {}]

---------------------------------------------------------------------------
(* train.py: helpers of train() *)

\* train.py:71-72  tf_config['cluster']['master'][0][:-5]
GetMaster_Strip4(cfg) ==
    LET m == cfg.cluster["master"][1] IN SubSeq(m, 1, Len(m) - 4)

GetMaster(cfg) ==
    LET m == cfg.cluster["master"][1] IN SubSeq(m, 1, Len(m) - 5)

\* train.py:22  '{}:2222'.format(master), the address curl probes
ProbeAddress(m) == m \o <<":", "2", "2", "2", "2">>

\* train.py:54  task_index = hosts.index(current_host)
PsTaskIndex_RoleIndex(H, cur) == ListIndex(TaskMap(H)[GetTaskType(cur, Masters(H))], cur)

PsTaskIndex(H, cur) == ListIndex(H, cur)

\* no tf.train.Server has been created
NoServer == [job_name |-> "none", task_index |-> -1]

---------------------------------------------------------------------------
(* train.py: train() *)

\* the state of train() before line 102, whatever the hosts are
InitState ==
    /\ checkpoint_differs \in BOOLEAN
    /\ task_type = "None"
    /\ tf_config = NoTfConfig
    /\ exception = "none"
    /\ pc = "build"
    /\ ps_thread = "none"
    /\ environ = {"S3_REQUEST_TIMEOUT_MSEC"}
    /\ master_up = TRUE
    /\ sleeps = 0
    /\ exits = 0
    /\ events = <<>>
    /\ calls = <<>>
    /\ customer_script \in SUBSET ModelFns
    /\ estimator = "None"
    /\ invoked = {}
    /\ master = <<>>
    /\ ps_server = NoServer

Init ==
    /\ hosts \in HostLists
    /\ current_host \in HostNames
    /\ InitState

\* the same, for host names of any length and with any characters
AnyNameInit ==
    /\ hosts \in AnyNameLists
    /\ current_host \in AnyNames
    /\ InitState

\* train.py:102  tf_config = train_wrapper.build_tf_config(); outside the try
Build ==
    /\ pc = "build"
    /\ LET r == BuildTfConfig(hosts, current_host)
       IN  /\ task_type' = r.task_type
           /\ tf_config' = r.tf_config
           /\ exception' = r.exc
           /\ pc' = IF r.exc = "none" THEN "ps" ELSE "raised"
           /\ events' = Append(events, IF r.exc = "none" THEN "build" ELSE "build_raise")
           /\ calls' = Append(calls, [exc |-> r.exc, tf_config |-> r.tf_config])
    /\ UNCHANGED <<master, ps_server, customer_script, estimator, invoked, hosts, current_host, checkpoint_differs, ps_thread, environ,
                   master_up, sleeps, exits>>

\* train.py:105-106 with 58-59: t = Thread(...); t.start(). Thread.start may raise
\* (RuntimeError: can't start new thread); the call is outside the try.
RunPsServer_WorkersOnly ==
    /\ pc = "ps"
    /\ Len(hosts) > 1
    /\ \/ /\ task_type = "worker"
          /\ ps_thread' = "started"
          /\ pc' = "save"
          /\ events' = Append(events, "ps_start")
          /\ UNCHANGED exception
       \/ /\ task_type # "worker"
          /\ pc' = "save"
          /\ UNCHANGED <<master, ps_server, customer_script, estimator, invoked, ps_thread, events, exception>>
       \/ /\ exception' = "RuntimeError"
          /\ pc' = "raised"
          /\ events' = Append(events, "ps_start_raise")
          /\ UNCHANGED ps_thread
    /\ UNCHANGED <<master, ps_server, customer_script, estimator, invoked, calls, hosts, current_host, checkpoint_differs, task_type, tf_config,
                   environ, master_up, sleeps, exits>>

RunPsServer ==
    /\ pc = "ps"
    /\ Len(hosts) > 1
    /\ \/ /\ ps_thread' = "started"
          /\ pc' = "save"
          /\ events' = Append(events, "ps_start")
          /\ UNCHANGED exception
       \/ /\ exception' = "RuntimeError"
          /\ pc' = "raised"
          /\ events' = Append(events, "ps_start_raise")
          /\ UNCHANGED ps_thread
    /\ UNCHANGED <<master, ps_server, customer_script, estimator, invoked, calls, hosts, current_host, checkpoint_differs, task_type, tf_config,
                   environ, master_up, sleeps, exits>>

\* train.py:105  len(env.hosts) > 1 is false: no parameter server
NoPsServer ==
    /\ pc = "ps"
    /\ ~(Len(hosts) > 1)
    /\ pc' = "save"
    /\ UNCHANGED <<master, ps_server, customer_script, estimator, invoked, calls, hosts, current_host, checkpoint_differs, task_type, tf_config,
                   exception, ps_thread, environ, master_up, sleeps, exits, events>>

\* train.py:52-56  the thread's body: tf.train.Server(...) then server.join(), which
\* never returns; it runs whenever the scheduler lets it, while the process lives
StartPsServer ==
    /\ ps_thread = "started"
    /\ ps_thread' = "serving"
    /\ ps_server' = [job_name |-> "ps", task_index |-> PsTaskIndex(hosts, current_host).value]
    /\ events' = Append(events, "ps_serving")
    /\ UNCHANGED <<master, customer_script, estimator, invoked, calls, hosts, current_host, checkpoint_differs, task_type, tf_config,
                   exception, pc, environ, master_up, sleeps, exits>>

\* train.py:108 with 29-34: os.environ['TF_CONFIG'] = json.dumps(tf_config); outside
\* the try, so an exception of json.dumps or of os.environ propagates
SaveTfConfigEnvVar ==
    /\ pc = "save"
    /\ \/ /\ environ' = environ \cup {"TF_CONFIG"}
          /\ pc' = "train"
          /\ events' = Append(events, "publish")
          /\ UNCHANGED exception
       \/ /\ exception' = "Exception"
          /\ pc' = "raised"
          /\ events' = Append(events, "publish_raise")
          /\ UNCHANGED environ
    /\ UNCHANGED <<master, ps_server, customer_script, estimator, invoked, calls, hosts, current_host, checkpoint_differs, task_type, tf_config,
                   ps_thread, master_up, sleeps, exits>>

\* train.py:110-111  the try is entered and run.train_and_log_exceptions is called
StartTraining_BeforeSave ==
    /\ pc \in {"save", "train"}
    /\ pc' = "training"
    /\ events' = Append(events, "train_start")
    /\ UNCHANGED <<master, ps_server, customer_script, estimator, invoked, calls, hosts, current_host, checkpoint_differs, task_type, tf_config,
                   exception, ps_thread, environ, master_up, sleeps, exits>>

StartTraining ==
    /\ pc = "train"
    /\ pc' = "training"
    /\ events' = Append(events, "train_start")
    /\ UNCHANGED <<master, ps_server, customer_script, estimator, invoked, calls, hosts, current_host, checkpoint_differs, task_type, tf_config,
                   exception, ps_thread, environ, master_up, sleeps, exits>>

\* trainer.py:111-116  Trainer.train: _generate_experiment_fn builds the estimator
\* before learn_runner.run is called
GenerateExperimentFn ==
    /\ pc = "training"
    /\ estimator = "None"
    /\ estimator' = BuildEstimator(customer_script).branch
    /\ invoked' = invoked \cup BuildEstimator(customer_script).invokes
    /\ events' = Append(events, "estimator_built")
    /\ UNCHANGED <<master, ps_server, customer_script, calls, hosts, current_host, checkpoint_differs,
                   task_type, tf_config, exception, pc, ps_thread, environ, master_up,
                   sleeps, exits>>

\* trainer.py:113, 203-204  learn_runner.run: the estimator of the else branch calls
\* _model_fn, which reads self.customer_script.model_fn: AttributeError if the
\* script has none, raised inside the training run
InvokeModelFn_AsIfPresent ==
    /\ pc = "training"
    /\ estimator = "model_fn"
    /\ "model_fn" \notin invoked
    /\ invoked' = invoked \cup {"model_fn"}
    /\ events' = Append(events, "model_fn_called")
    /\ UNCHANGED <<master, ps_server, customer_script, estimator, calls, hosts, current_host,
                   checkpoint_differs, task_type, tf_config, exception, pc, ps_thread,
                   environ, master_up, sleeps, exits>>

InvokeModelFn ==
    /\ pc = "training"
    /\ estimator = "model_fn"
    /\ "model_fn" \notin invoked
    /\ \/ /\ "model_fn" \in customer_script
          /\ invoked' = invoked \cup {"model_fn"}
          /\ events' = Append(events, "model_fn_called")
          /\ UNCHANGED <<master, ps_server, exception, pc>>
       \/ /\ "model_fn" \notin customer_script
          /\ exception' = "AttributeError"
          /\ pc' = "finally"
          /\ events' = Append(events, "train_raise")
          /\ UNCHANGED invoked
    /\ UNCHANGED <<master, ps_server, customer_script, estimator, calls, hosts, current_host,
                   checkpoint_differs, task_type, tf_config, ps_thread, environ,
                   master_up, sleeps, exits>>

\* train.py:111  run.train_and_log_exceptions returns: the estimator was built and,
\* in the else branch, its model function was called
TrainingReturns ==
    /\ pc = "training"
    /\ estimator # "None"
    /\ (estimator = "model_fn" => "model_fn" \in invoked)
    /\ pc' = "export"
    /\ events' = Append(events, "train_done")
    /\ UNCHANGED <<master, ps_server, customer_script, estimator, invoked, calls, hosts, current_host, checkpoint_differs, task_type, tf_config,
                   exception, ps_thread, environ, master_up, sleeps, exits>>

\* train.py:111, 119  run.train_and_log_exceptions raises: control goes to finally
TrainingRaises_NoFinally ==
    /\ pc = "training"
    /\ exception' = "Exception"
    /\ pc' = "raised"
    /\ events' = Append(events, "train_raise")
    /\ UNCHANGED <<master, ps_server, customer_script, estimator, invoked, calls, hosts, current_host, checkpoint_differs, task_type, tf_config,
                   ps_thread, environ, master_up, sleeps, exits>>

TrainingRaises_ThenExport ==
    /\ pc = "training"
    /\ exception' = "Exception"
    /\ pc' = "export"
    /\ events' = Append(events, "train_raise")
    /\ UNCHANGED <<master, ps_server, customer_script, estimator, invoked, calls, hosts, current_host, checkpoint_differs, task_type, tf_config,
                   ps_thread, environ, master_up, sleeps, exits>>

TrainingRaises ==
    /\ pc = "training"
    /\ exception' = "Exception"
    /\ pc' = "finally"
    /\ events' = Append(events, "train_raise")
    /\ UNCHANGED <<master, ps_server, customer_script, estimator, invoked, calls, hosts, current_host, checkpoint_differs, task_type, tf_config,
                   ps_thread, environ, master_up, sleeps, exits>>

\* train.py:114-115  serve.export_saved_model(checkpoint_dir, env.model_dir), which
\* returns or raises
ExportSavedModel_AnyRole ==
    /\ pc = "export"
    /\ checkpoint_differs
    /\ \/ /\ pc' = "wait"
          /\ events' = Append(events, "export")
          /\ UNCHANGED exception
       \/ /\ exception' = "Exception"
          /\ pc' = "finally"
          /\ events' = Append(events, "export_raise")
    /\ UNCHANGED <<master, ps_server, customer_script, estimator, invoked, calls, hosts, current_host, checkpoint_differs, task_type, tf_config,
                   ps_thread, environ, master_up, sleeps, exits>>

ExportSavedModel_NoFinally ==
    /\ pc = "export"
    /\ checkpoint_differs /\ task_type = "master"
    /\ \/ /\ pc' = "wait"
          /\ events' = Append(events, "export")
          /\ UNCHANGED exception
       \/ /\ exception' = "Exception"
          /\ pc' = "raised"
          /\ events' = Append(events, "export_raise")
    /\ UNCHANGED <<master, ps_server, customer_script, estimator, invoked, calls, hosts, current_host, checkpoint_differs, task_type, tf_config,
                   ps_thread, environ, master_up, sleeps, exits>>

ExportSavedModel ==
    /\ pc = "export"
    /\ checkpoint_differs /\ task_type = "master"
    /\ \/ /\ pc' = "wait"
          /\ events' = Append(events, "export")
          /\ UNCHANGED exception
       \/ /\ exception' = "Exception"
          /\ pc' = "finally"
          /\ events' = Append(events, "export_raise")
    /\ UNCHANGED <<master, ps_server, customer_script, estimator, invoked, calls, hosts, current_host, checkpoint_differs, task_type, tf_config,
                   ps_thread, environ, master_up, sleeps, exits>>

\* train.py:114  the condition is false
SkipExport ==
    /\ pc = "export"
    /\ ~(checkpoint_differs /\ task_type = "master")
    /\ pc' = "wait"
    /\ UNCHANGED <<master, ps_server, customer_script, estimator, invoked, calls, hosts, current_host, checkpoint_differs, task_type, tf_config,
                   exception, ps_thread, environ, master_up, sleeps, exits, events>>

\* train.py:117-118  a non-master enters _wait_until_master_is_down
EnterWait_AnyRole ==
    /\ pc = "wait"
    /\ pc' = "probe"
    /\ master' = GetMaster(tf_config)
    /\ events' = Append(events, "wait")
    /\ UNCHANGED <<ps_server, customer_script, estimator, invoked, calls, hosts, current_host, checkpoint_differs, task_type, tf_config,
                   exception, ps_thread, environ, master_up, sleeps, exits>>

EnterWait ==
    /\ pc = "wait"
    /\ task_type # "master"
    /\ pc' = "probe"
    /\ master' = GetMaster(tf_config)
    /\ events' = Append(events, "wait")
    /\ UNCHANGED <<ps_server, customer_script, estimator, invoked, calls, hosts, current_host, checkpoint_differs, task_type, tf_config,
                   exception, ps_thread, environ, master_up, sleeps, exits>>

\* train.py:117  the master skips the wait and leaves the try
SkipWait ==
    /\ pc = "wait"
    /\ ~(task_type # "master")
    /\ pc' = "finally"
    /\ UNCHANGED <<master, ps_server, customer_script, estimator, invoked, calls, hosts, current_host, checkpoint_differs, task_type, tf_config,
                   exception, ps_thread, environ, master_up, sleeps, exits, events>>

\* train.py:22  curl exits with status 0: possible only while the master answers
ProbeSucceeds_ThenReturns ==
    /\ pc = "probe"
    /\ master_up
    /\ sleeps < MaxSleeps
    /\ pc' = "finally"
    /\ events' = Append(Append(events, "probe_ok"), "wait_done")
    /\ UNCHANGED <<master, ps_server, customer_script, estimator, invoked, calls, hosts, current_host, checkpoint_differs, task_type, tf_config,
                   exception, ps_thread, environ, master_up, sleeps, exits>>

ProbeSucceeds ==
    /\ pc = "probe"
    /\ master_up
    /\ sleeps < MaxSleeps
    /\ pc' = "sleep"
    /\ events' = Append(events, "probe_ok")
    /\ UNCHANGED <<master, ps_server, customer_script, estimator, invoked, calls, hosts, current_host, checkpoint_differs, task_type, tf_config,
                   exception, ps_thread, environ, master_up, sleeps, exits>>

\* train.py:23  time.sleep(10), then the loop probes again
Sleep ==
    /\ pc = "sleep"
    /\ sleeps' = sleeps + 1
    /\ pc' = "probe"
    /\ events' = Append(events, "sleep")
    /\ UNCHANGED <<master, ps_server, customer_script, estimator, invoked, calls, hosts, current_host, checkpoint_differs, task_type, tf_config,
                   exception, ps_thread, environ, master_up, exits>>

\* train.py:22, 24-26  curl exits with a status != 0 (master down, or any other
\* failure of the probe): CalledProcessError is caught and the wait returns
ProbeFails_SleepsFirst ==
    /\ pc = "probe"
    /\ pc' = "finally"
    /\ sleeps' = sleeps + 1
    /\ events' = Append(Append(events, "sleep"), "wait_done")
    /\ UNCHANGED <<master, ps_server, customer_script, estimator, invoked, calls, hosts, current_host, checkpoint_differs, task_type, tf_config,
                   exception, ps_thread, environ, master_up, exits>>

ProbeFails ==
    /\ pc = "probe"
    /\ pc' = "finally"
    /\ events' = Append(events, "wait_done")
    /\ UNCHANGED <<master, ps_server, customer_script, estimator, invoked, calls, hosts, current_host, checkpoint_differs, task_type, tf_config,
                   exception, ps_thread, environ, master_up, sleeps, exits>>

\* train.py:22  check_call raises something else (OSError: no curl), not caught
ProbeRaises ==
    /\ pc = "probe"
    /\ exception' = "OSError"
    /\ pc' = "finally"
    /\ events' = Append(events, "wait_raise")
    /\ UNCHANGED <<master, ps_server, customer_script, estimator, invoked, calls, hosts, current_host, checkpoint_differs, task_type, tf_config,
                   ps_thread, environ, master_up, sleeps, exits>>

\* train.py:119-122  finally: os._exit(0) ends the process, its threads included
Finally ==
    /\ pc = "finally"
    /\ exits' = exits + 1
    /\ pc' = "exited"
    /\ ps_thread' = IF ps_thread \in {"started", "serving"} THEN "killed" ELSE ps_thread
    /\ events' = Append(events, "exit")
    /\ UNCHANGED <<master, ps_server, customer_script, estimator, invoked, calls, hosts, current_host, checkpoint_differs, task_type, tf_config,
                   exception, environ, master_up, sleeps>>

\* The environment: the master's process ends and hosts[0]:2222 stops answering
MasterGoesDown ==
    /\ master_up
    /\ pc # "exited"
    /\ master_up' = FALSE
    /\ UNCHANGED <<master, ps_server, customer_script, estimator, invoked, calls, hosts, current_host, checkpoint_differs, task_type, tf_config,
                   exception, pc, ps_thread, environ, sleeps, exits, events>>

Next ==
    \/ Build
    \/ RunPsServer
    \/ NoPsServer
    \/ StartPsServer
    \/ SaveTfConfigEnvVar
    \/ StartTraining
    \/ GenerateExperimentFn
    \/ InvokeModelFn
    \/ TrainingReturns
    \/ TrainingRaises
    \/ ExportSavedModel
    \/ SkipExport
    \/ EnterWait
    \/ SkipWait
    \/ ProbeSucceeds
    \/ Sleep
    \/ ProbeFails
    \/ ProbeRaises
    \/ Finally
    \/ MasterGoesDown

Spec == Init /\ [][Next]_vars

\* trainer.py:46-54  a new Trainer for the same hosts and current_host: its
\* task_type starts as None
NewTrainer ==
    /\ task_type # "None"
    /\ task_type' = "None"
    /\ UNCHANGED <<master, ps_server, customer_script, estimator, invoked, calls, hosts, current_host, checkpoint_differs, tf_config, exception,
                   pc, ps_thread, environ, master_up, sleeps, exits, events>>

\* trainer.py:69-109  build_tf_config called on the Trainer as its earlier calls
\* left it; hosts[:1], hosts[1:] and hosts[:] are copies, so hosts is not changed
CallBuildTfConfig_PopsHost ==
    /\ Len(calls) < MaxCalls
    /\ LET r == BuildTfConfig(hosts, current_host)
       IN  /\ task_type' = r.task_type
           /\ tf_config' = r.tf_config
           /\ exception' = r.exc
           /\ calls' = Append(calls, [exc |-> r.exc, tf_config |-> r.tf_config])
    /\ hosts' = IF Len(hosts) > 0 THEN Tail(hosts) ELSE hosts
    /\ UNCHANGED <<master, ps_server, customer_script, estimator, invoked, current_host, checkpoint_differs, pc, ps_thread, environ,
                   master_up, sleeps, exits, events>>

CallBuildTfConfig ==
    /\ Len(calls) < MaxCalls
    /\ LET r == BuildTfConfig(hosts, current_host)
       IN  /\ task_type' = r.task_type
           /\ tf_config' = r.tf_config
           /\ exception' = r.exc
           /\ calls' = Append(calls, [exc |-> r.exc, tf_config |-> r.tf_config])
    /\ UNCHANGED <<master, ps_server, customer_script, estimator, invoked, hosts, current_host, checkpoint_differs, pc, ps_thread, environ,
                   master_up, sleeps, exits, events>>

BuildNext ==
    \/ CallBuildTfConfig
    \/ NewTrainer

\* train() for host names of any shape
AnyNameSpec == AnyNameInit /\ [][Next]_vars

\* build_tf_config called repeatedly, on one Trainer or on new ones
BuildSpec == Init /\ [][BuildNext]_vars

\* The main flow is one thread that keeps being scheduled: a probe that has been
\* started ends (curl returns or check_call raises), time.sleep(10) returns, and
\* the finally block runs. Training, export and the master are not assumed to end.
WaitFairness ==
    /\ WF_vars(ProbeSucceeds \/ ProbeFails \/ ProbeRaises)
    /\ WF_vars(Sleep)
    /\ WF_vars(Finally)

FairSpec == Init /\ [][Next]_vars /\ WaitFairness

TypeOK ==
    /\ hosts \in HostLists
    /\ current_host \in HostNames
    /\ pc \in {"build", "ps", "save", "train", "training", "export", "wait", "probe",
               "sleep", "finally", "exited", "raised"}
    /\ ps_thread \in {"none", "started", "serving", "killed"}
    /\ task_type \in {"None", "master", "worker"}
    /\ sleeps \in 0..MaxSleeps
    /\ exits \in 0..1

---------------------------------------------------------------------------
(* Vocabulary of the properties *)

\* build_tf_config has been called / has returned a dictionary
Called == pc # "build"
BuiltOk == Len(events) > 0 /\ events[1] = "build"

Occurred(e) == \E i \in 1..Len(events) : events[i] = e
TrainingStarted == Occurred("train_start")

\* the list under a key of tf_config['cluster'], empty when the key is absent
ClusterList(k) ==
    IF k \in DOMAIN tf_config.cluster THEN tf_config.cluster[k] ELSE <<>>

Address2222(h) == h \o <<":", "2", "2", "2", "2">>
Address2223(h) == h \o <<":", "2", "2", "2", "3">>

---------------------------------------------------------------------------
(* Properties of Trainer.build_tf_config *)

\* C1: for a non-empty host list H and current_host in H, build_tf_config returns
\* a dictionary whose cluster.master is exactly <<'H[0]:2222'>>, whose task type
\* (and Trainer.task_type) is master if current_host = H[0] and worker otherwise,
\* and whose task index is 0 when the type is master.
C1_MasterIsFirstHost ==
    (Called /\ Len(hosts) > 0 /\ current_host \in ToSet(hosts)) =>
        /\ BuiltOk
        /\ "master" \in DOMAIN tf_config.cluster
        /\ tf_config.cluster["master"] = <<Address2222(hosts[1])>>
        /\ tf_config.task.type = (IF current_host = hosts[1] THEN "master" ELSE "worker")
        /\ task_type = tf_config.task.type
        /\ tf_config.task.type \in {"master", "worker"}
        /\ (tf_config.task.type = "master" => tf_config.task.index = 0)

C1_Witness ==
    /\ BuiltOk /\ Len(hosts) = 3 /\ current_host = hosts[1]
    /\ tf_config.task = [index |-> 0, type |-> "master"]

\* C2: for a host list H of more than one host and current_host = H[i] with i > 0
\* (zero-based), the task is {index: i - 1, type: worker}, cluster.master is
\* <<'H[0]:2222'>>, cluster.worker lists H[1:] with port 2222 in order and
\* cluster.ps lists H with port 2223 in order.
C2_WorkerIndexInWorkerList ==
    \A i \in 2..Len(hosts) :
        (Called /\ current_host = hosts[i]) =>
            /\ BuiltOk
            /\ tf_config.task = [index |-> i - 2, type |-> "worker"]
            /\ DOMAIN tf_config.cluster = {"master", "worker", "ps"}
            /\ tf_config.cluster["master"] = <<Address2222(hosts[1])>>
            /\ tf_config.cluster["worker"] =
                   [j \in 1..(Len(hosts) - 1) |-> Address2222(hosts[j + 1])]
            /\ tf_config.cluster["ps"] = [j \in 1..Len(hosts) |-> Address2223(hosts[j])]

\* hosts = [a, b, c], current_host = b
C2_Witness ==
    /\ hosts = << <<"a">>, <<"b">>, <<"c">> >>
    /\ current_host = <<"b">>
    /\ tf_config.task = [index |-> 0, type |-> "worker"]
    /\ tf_config.cluster["master"] = << <<"a", ":", "2", "2", "2", "2">> >>
    /\ tf_config.cluster["worker"] = << <<"b", ":", "2", "2", "2", "2">>,
                                        <<"c", ":", "2", "2", "2", "2">> >>
    /\ tf_config.cluster["ps"] = << <<"a", ":", "2", "2", "2", "3">>,
                                    <<"b", ":", "2", "2", "2", "3">>,
                                    <<"c", ":", "2", "2", "2", "3">> >>

\* C3: in the dictionary build_tf_config returns, cluster.ps lists every host of H
\* with port 2223 in H's order when H has more than one host, and there is no ps
\* key when H has one host.
C3_PsListIsAllHosts ==
    BuiltOk =>
        /\ (Len(hosts) > 1 =>
               /\ "ps" \in DOMAIN tf_config.cluster
               /\ Len(tf_config.cluster["ps"]) = Len(hosts)
               /\ \A j \in 1..Len(hosts) :
                      tf_config.cluster["ps"][j] = Address2223(hosts[j]))
        /\ (Len(hosts) = 1 => "ps" \notin DOMAIN tf_config.cluster)

C3_Witness ==
    /\ BuiltOk /\ Len(hosts) = 3 /\ current_host = hosts[3]
    /\ Len(tf_config.cluster["ps"]) = 3

\* C4 as stated: for hosts = [a] and current_host = a the role is master, there
\* is no ps key, and the cluster has a worker list, which is empty.
C4_Original ==
    (Called /\ Len(hosts) = 1 /\ current_host = hosts[1]) =>
        /\ BuiltOk
        /\ tf_config.task.type = "master"
        /\ "ps" \notin DOMAIN tf_config.cluster
        /\ "worker" \in DOMAIN tf_config.cluster
        /\ tf_config.cluster["worker"] = <<>>

\* C4: for hosts = [a] and current_host = a the role is master with task index 0,
\* and the cluster has the master key only: no ps key and no worker key (an empty
\* worker list is left out of the dictionary, not stored as an empty sequence).
C4_SingleHostMasterOnly ==
    (Called /\ Len(hosts) = 1 /\ current_host = hosts[1]) =>
        /\ BuiltOk
        /\ task_type = "master"
        /\ tf_config.task = [index |-> 0, type |-> "master"]
        /\ DOMAIN tf_config.cluster = {"master"}
        /\ tf_config.cluster["master"] = <<Address2222(hosts[1])>>

C4_Witness ==
    /\ hosts = << <<"a">> >> /\ current_host = <<"a">>
    /\ BuiltOk
    /\ DOMAIN tf_config.cluster = {"master"}

\* C5 as stated: for every host list H, the empty one included, and current_host
\* not in H, build_tf_config fails with a ConfigurationError and returns nothing.
C5_Original ==
    (Called /\ current_host \notin ToSet(hosts)) =>
        /\ exception = "ConfigurationError"
        /\ tf_config = NoTfConfig

\* C5: for every host list H, the empty one included, and current_host not in H,
\* build_tf_config fails with the ValueError of list.index and returns nothing;
\* the exception leaves train() and no later step of the flow runs.
C5_AbsentHostRaisesValueError ==
    (Called /\ current_host \notin ToSet(hosts)) =>
        /\ exception = "ValueError"
        /\ tf_config = NoTfConfig
        /\ pc = "raised"
        /\ events = <<"build_raise">>

C5_Witness ==
    /\ hosts = <<>> /\ current_host = <<"a">>
    /\ exception = "ValueError" /\ pc = "raised"

\* C6: in the dictionary build_tf_config returns, the master list has exactly one
\* host; every host of H is in exactly one of the master and worker lists; and
\* the ps list, when present, holds exactly the hosts of H.
C6_RolePartition ==
    BuiltOk =>
        /\ Len(ClusterList("master")) = 1
        /\ \A h \in ToSet(hosts) :
              (Address2222(h) \in ToSet(ClusterList("master")))
                 # (Address2222(h) \in ToSet(ClusterList("worker")))
        /\ Len(ClusterList("master")) + Len(ClusterList("worker")) = Len(hosts)
        /\ ("ps" \in DOMAIN tf_config.cluster =>
               ToSet(tf_config.cluster["ps"]) = {Address2223(h) : h \in ToSet(hosts)})

C6_Witness ==
    /\ BuiltOk /\ Len(hosts) = 3 /\ current_host = hosts[2]
    /\ Len(ClusterList("worker")) = 2

---------------------------------------------------------------------------
(* Properties of the flow train() *)

\* number of os._exit steps in the history
ExitEvents == Cardinality({i \in 1..Len(events) : events[i] = "exit"})

\* position of the first occurrence of an event in the history, 0 if none
FirstAt(e) ==
    IF Occurred(e) THEN CHOOSE i \in 1..Len(events) :
                            events[i] = e /\ \A j \in 1..(i - 1) : events[j] # e
    ELSE 0

\* the flow has stopped: by os._exit, or by an exception that left train()
FlowEnded == pc \in {"exited", "raised"}

\* C7: once training has started, os._exit is called at most once; the flow never
\* leaves train() by an exception; it has ended exactly when os._exit has been
\* called once; and after training, export or the wait has raised, or the wait
\* has returned, the only step left is the os._exit of the finally block.
C7_ExitExactlyOnceAfterTraining ==
    TrainingStarted =>
        /\ exits <= 1
        /\ ExitEvents = exits
        /\ pc # "raised"
        /\ (FlowEnded <=> exits = 1)
        /\ (\E e \in {"train_raise", "export_raise", "wait_raise", "wait_done"} : Occurred(e))
               => pc \in {"finally", "exited"}
        /\ (pc = "finally" => exits = 0 /\ ENABLED Finally)

C7_Witness ==
    /\ pc = "exited" /\ exits = 1
    /\ Occurred("export_raise")

\* C8 as stated: at whatever stage a run of train() stops, it stops by os._exit,
\* and no run is left with only the parameter-server thread alive.
C8_Original ==
    /\ (FlowEnded => pc = "exited" /\ exits = 1)
    /\ ~(pc = "raised" /\ ps_thread \in {"started", "serving"})

\* C8: a run of train() that has entered the try block (training, export, the
\* wait for the master) stops by os._exit only, called once, which also ends the
\* parameter-server thread. A run that stops earlier (build_tf_config raising
\* for a current host that is not in the host list, the thread start or the
\* publication raising) leaves train() by its exception without os._exit, and a
\* parameter-server thread started before that stays alive.
C8_ForcedExitOnceTryEntered ==
    /\ (pc = "exited" =>
           /\ exits = 1
           /\ TrainingStarted
           /\ ps_thread \in {"none", "killed"})
    /\ (pc = "raised" =>
           /\ exits = 0
           /\ ~TrainingStarted
           /\ \E e \in {"build_raise", "ps_start_raise", "publish_raise"} : Occurred(e)
           /\ (ps_thread # "none" <=> Occurred("ps_start")))
    /\ (current_host \notin ToSet(hosts) /\ Called => pc = "raised")

C8_Witness ==
    /\ pc = "exited" /\ exits = 1
    /\ ps_thread = "killed"
    /\ Occurred("ps_serving") /\ Occurred("wait_done")

\* C9: on a node of a cluster of more than one host, in every interleaving of the
\* main flow with the parameter-server thread, the thread is started
\* (_run_ps_server, t.start()) before TF_CONFIG is published, and TF_CONFIG is
\* published before training starts.
C9_PsStartThenPublishThenTrain ==
    Len(hosts) > 1 =>
        /\ (Occurred("publish") =>
               /\ Occurred("ps_start")
               /\ FirstAt("ps_start") < FirstAt("publish"))
        /\ ("TF_CONFIG" \in environ <=> Occurred("publish"))
        /\ ("TF_CONFIG" \in environ => ps_thread # "none")
        /\ (TrainingStarted =>
               /\ Occurred("publish")
               /\ FirstAt("publish") < FirstAt("train_start")
               /\ "TF_CONFIG" \in environ)
        /\ (Occurred("ps_serving") => FirstAt("ps_start") < FirstAt("ps_serving"))

\* training has started while the thread has not yet run its body
C9_Witness ==
    /\ Len(hosts) > 1
    /\ pc = "training"
    /\ ps_thread = "started"
    /\ events = <<"build", "ps_start", "publish", "train_start">>

\* C10: when training raises, the next and only step of the main flow is the
\* os._exit of the finally block: the model is not exported and the wait for the
\* master is not entered.
C10_TrainingFailureSkipsExportAndWait ==
    Occurred("train_raise") =>
        /\ pc \in {"finally", "exited"}
        /\ exception \in {"Exception", "AttributeError"}
        /\ sleeps = 0
        /\ \A i \in 1..Len(events) :
              i > FirstAt("train_raise") => events[i] \in {"exit", "ps_serving"}
        /\ ~Occurred("export") /\ ~Occurred("export_raise") /\ ~Occurred("wait")

C10_Witness ==
    /\ Occurred("train_raise")
    /\ pc = "exited"
    /\ task_type = "worker"
    /\ checkpoint_differs

---------------------------------------------------------------------------
(* Properties of the stages after training *)

\* serve.export_saved_model has been called (and returned or raised)
ExportCalled == Occurred("export") \/ Occurred("export_raise")

\* number of occurrences of an event in the history
Count(e) == Cardinality({i \in 1..Len(events) : events[i] = e})

\* C11: once training has returned and the flow is past line 114, the model export
\* has been called exactly when the node's task type is master and the checkpoint
\* directory differs from the model directory; a worker never exports, a master
\* whose two directories are equal never exports, and an export is never called
\* before training has returned.
C11_ExportIffMasterAndCheckpointDiffers ==
    /\ ((Occurred("train_done") /\ pc # "export") =>
           (ExportCalled <=> (task_type = "master" /\ checkpoint_differs)))
    /\ (ExportCalled =>
           /\ Occurred("train_done")
           /\ current_host = hosts[1]
           /\ \A i \in 1..Len(events) :
                 events[i] \in {"export", "export_raise"} => FirstAt("train_done") < i)
    /\ Count("export") + Count("export_raise") <= 1

C11_Witness ==
    /\ Occurred("export")
    /\ task_type = "master" /\ checkpoint_differs
    /\ pc = "exited"

\* C12: _wait_until_master_is_down is entered only by a node whose task type is
\* not master and only after its training has returned; the master never enters
\* it; and a non-master whose training has returned has entered it by the time
\* the flow goes on to os._exit.
C12_WaitOnlyNonMasterAfterTraining ==
    /\ (Occurred("wait") =>
           /\ task_type = "worker"
           /\ current_host # hosts[1]
           /\ Occurred("train_done")
           /\ FirstAt("train_done") < FirstAt("wait"))
    /\ (task_type = "master" => pc \notin {"probe", "sleep"} /\ sleeps = 0)
    /\ ((task_type = "worker" /\ Occurred("train_done") /\ pc \in {"finally", "exited"})
           => Occurred("wait"))
    /\ (Occurred("exit") /\ Occurred("wait") => FirstAt("wait") < FirstAt("exit"))

C12_Witness ==
    /\ task_type = "worker"
    /\ Occurred("wait") /\ Occurred("wait_done")
    /\ pc = "exited"

\* the main flow's part of the history from the entry into the wait on
RECURSIVE WaitTrace(_)
WaitTrace(i) ==
    IF i > Len(events) THEN <<>>
    ELSE IF events[i] \in {"probe_ok", "sleep", "wait_done", "wait_raise"}
         THEN <<events[i]>> \o WaitTrace(i + 1)
         ELSE WaitTrace(i + 1)

\* C13: in _wait_until_master_is_down every successful probe is followed by one
\* sleep and the next probe, and the first failed probe makes it return at once:
\* when it returns after k successful probes it has slept exactly k times, none
\* of them after the failure, and it does not return after a successful probe.
C13_ReturnsAtFirstFailedProbe ==
    LET w == WaitTrace(1)
    IN  /\ Count("sleep") = sleeps
        /\ \A i \in 1..Len(w) :
              /\ (w[i] = "probe_ok" => (i < Len(w) => w[i + 1] = "sleep"))
              /\ (w[i] = "sleep" => i > 1 /\ w[i - 1] = "probe_ok")
              /\ (w[i] \in {"wait_done", "wait_raise"} => i = Len(w))
        /\ (pc = "probe" => Count("probe_ok") = sleeps)
        /\ (pc = "sleep" => Count("probe_ok") = sleeps + 1)
        /\ (Occurred("wait_done") =>
               /\ Count("probe_ok") = sleeps
               /\ Count("sleep") = Count("probe_ok")
               /\ Count("wait_done") = 1
               /\ pc \in {"finally", "exited"})

\* one successful probe, then a failed one: exactly one sleep
C13_Witness ==
    /\ WaitTrace(1) = <<"probe_ok", "sleep", "wait_done">>
    /\ sleeps = 1
    /\ pc = "finally"

---------------------------------------------------------------------------
(* Termination of the non-master nodes *)

\* the step has appended a successful probe to the history
ProbeAnswered ==
    \E i \in (Len(events) + 1)..Len(events') : events'[i] = "probe_ok"

\* C14: on a non-master node (b or c of the cluster [a, b, c]) that is in the
\* liveness wait, once the master no longer answers on port 2222 the node's own
\* flow, scheduled fairly, reaches os._exit, which also ends its parameter-server
\* thread; nothing but the node's own probes takes part. A probe the master has
\* answered never ends the wait: it is followed by the sleep, and it cannot
\* happen once the master is down.
C14_WorkersExitAfterMasterDown ==
    /\ ((pc \in {"probe", "sleep"} /\ ~master_up)
           ~> (pc = "exited" /\ exits = 1 /\ ps_thread = "killed"))
    /\ [][ProbeAnswered =>
            /\ master_up
            /\ pc = "probe" /\ pc' = "sleep"
            /\ \A i \in 1..Len(events') : events'[i] # "wait_done"]_vars

C14_Witness ==
    /\ hosts = << <<"a">>, <<"b">>, <<"c">> >>
    /\ current_host = <<"c">>
    /\ ~master_up
    /\ Count("probe_ok") >= 1
    /\ Occurred("wait_done")
    /\ pc = "exited" /\ ps_thread = "killed"

---------------------------------------------------------------------------
(* Repeated calls of build_tf_config *)

---------------------------------------------------------------------------
(* The parameter-server thread *)

\* the main flow has passed line 105-106
PastPsStage == BuiltOk /\ pc # "ps"

\* C16: once past line 106, the node has started its parameter-server thread
\* (t.start() called) exactly when the host list has more than one host, on the
\* master and on a worker alike; a thread exists only if it was started there,
\* at most once per run; the main flow never waits for it: the thread never ends
\* by itself and is ended only by the os._exit of the main flow.
C16_PsThreadIffMultiHost ==
    /\ (PastPsStage =>
           ((Occurred("ps_start") \/ Occurred("ps_start_raise")) <=> Len(hosts) > 1))
    /\ (ps_thread # "none" <=> Occurred("ps_start"))
    /\ Count("ps_start") + Count("ps_start_raise") <= 1
    /\ Count("ps_serving") <= 1
    /\ (ps_thread = "killed" <=> (pc = "exited" /\ Occurred("ps_start")))
    /\ (pc = "finally" => ENABLED Finally)
    /\ (Occurred("ps_serving") => Occurred("ps_start"))

\* the master of a two-host job exits while its thread has not even begun to serve
C16_Witness ==
    /\ Len(hosts) = 2
    /\ task_type = "master"
    /\ Occurred("ps_start") /\ ~Occurred("ps_serving")
    /\ pc = "exited" /\ ps_thread = "killed"

---------------------------------------------------------------------------
(* Properties of Trainer._build_estimator *)

Priority == <<"estimator_fn", "keras_model_fn", "model_fn">>

\* the first function of the priority order that the script defines
HighestPresent ==
    Priority[CHOOSE i \in 1..3 :
                /\ Priority[i] \in customer_script
                /\ \A j \in 1..(i - 1) : Priority[j] \notin customer_script]

\* C17: for every non-empty subset of estimator_fn, keras_model_fn and model_fn
\* that the customer script defines, _build_estimator takes the branch of the
\* first one present in that order, and no other of the three functions is ever
\* called, neither when the estimator is built nor while training runs.
C17_EstimatorPriorityOrder ==
    (customer_script # {}) =>
        /\ (estimator # "None" => estimator = HighestPresent)
        /\ invoked \subseteq {HighestPresent}
        /\ (estimator \in {"estimator_fn", "keras_model_fn"} => invoked = {estimator})
        /\ (Occurred("train_done") => invoked = {HighestPresent})

C17_Witness ==
    /\ customer_script = {"keras_model_fn", "model_fn"}
    /\ estimator = "keras_model_fn"
    /\ invoked = {"keras_model_fn"}
    /\ Occurred("train_done")

\* C18 as stated: when the script defines none of the three functions, building the
\* estimator fails with a ConfigurationError, before the training engine is run.
C18_Original ==
    (customer_script = {}) =>
        /\ estimator = "None"
        /\ (Occurred("estimator_built") => exception = "ConfigurationError")

\* C18: when the script defines none of the three functions, _build_estimator
\* raises nothing: it takes the else branch and returns an estimator around the
\* wrapper _model_fn. The failure comes later, inside the training run, as the
\* AttributeError of the first call of _model_fn; training never returns, none
\* of the three functions is called, and the flow goes to os._exit.
C18_MissingModelFnSurfacesInTraining ==
    (customer_script = {}) =>
        /\ estimator \in {"None", "model_fn"}
        /\ (Occurred("estimator_built") <=> estimator = "model_fn")
        /\ invoked = {}
        /\ ~Occurred("train_done")
        /\ exception # "ConfigurationError"
        /\ (exception = "AttributeError" =>
               /\ Occurred("estimator_built")
               /\ FirstAt("estimator_built") < FirstAt("train_raise")
               /\ pc \in {"finally", "exited"})
        /\ (pc = "training" /\ estimator = "model_fn" => ENABLED InvokeModelFn)

C18_Witness ==
    /\ customer_script = {}
    /\ estimator = "model_fn"
    /\ exception = "AttributeError"
    /\ pc = "exited"

---------------------------------------------------------------------------
(* The probed master and the task index of the parameter server *)

\* C19: for host names of any length and with any characters, _get_master of the
\* dictionary build_tf_config returned is exactly hosts[0]; the host a non-master
\* node passes to _wait_until_master_is_down is hosts[0], and the address it
\* probes is the one the dictionary lists as master.
C19_ProbedMasterIsFirstHost ==
    /\ (BuiltOk => GetMaster(tf_config) = hosts[1])
    /\ (Occurred("wait") =>
           /\ master = hosts[1]
           /\ ProbeAddress(master) = tf_config.cluster["master"][1]
           /\ Len(ProbeAddress(master)) = Len(hosts[1]) + 5)

\* the master's name holds a colon and a port itself
C19_Witness ==
    /\ Len(hosts) = 2
    /\ hosts[1] = <<"h", ":", "2", "2", "2", "2">>
    /\ hosts[2] = <<>>
    /\ current_host = <<>>
    /\ Occurred("wait")
    /\ master = <<"h", ":", "2", "2", "2", "2">>

\* C20: on a node of a job of more than one host, the task index the thread gives
\* its tf.train.Server is an index of the ps list of the node's dictionary, the
\* entry there is 'current_host:2223', and no other node of the job, running
\* the same code on the same host list, gets the same index.
C20_PsTaskIndexIsOwnPsEntry ==
    Occurred("ps_serving") =>
        /\ ps_server.job_name = "ps"
        /\ "ps" \in DOMAIN tf_config.cluster
        /\ ps_server.task_index \in 0..(Len(tf_config.cluster["ps"]) - 1)
        /\ tf_config.cluster["ps"][ps_server.task_index + 1] = Address2223(current_host)
        /\ \A other \in ToSet(hosts) \ {current_host} :
              /\ PsTaskIndex(hosts, other).exc = "none"
              /\ PsTaskIndex(hosts, other).value # ps_server.task_index

C20_Witness ==
    /\ hosts = << <<"a">>, <<"b">>, <<"c">> >>
    /\ current_host = <<"b">>
    /\ Occurred("ps_serving")
    /\ ps_server = [job_name |-> "ps", task_index |-> 1]
    /\ tf_config.task.index = 0

=============================================================================
